---------------------------- MODULE Spec2Model ----------------------------
(***************************************************************************)
(* Model of internal/services/docker/docker_api.go: the API type that      *)
(* pulls images, runs one analysis container per invocation and removes    *)
(* the containers of an analysis.                                          *)
(*                                                                         *)
(* Strings are sequences of tokens (a token is a character, or a word      *)
(* whose inner structure no operation of the program looks into).  A UUID  *)
(* is one token: its 36 characters have hyphens at fixed places, so one     *)
(* UUID occurs in "<uuid>-<uuid>" only as the first or as the second.      *)
(* Several goroutines call the API concurrently; each step of a call is    *)
(* one request to the docker daemon.                                       *)
(***************************************************************************)
EXTENDS Integers, Sequences, FiniteSets, TLC

(***************************************************************************)
(* Bounds of the model.                                                    *)
(***************************************************************************)
\* containers the daemon creates in one behaviour
MaxContainers == 2
\* length of the longest stdout log of a container
MaxOutLen == 2

\* the calling goroutines, and how many calls each makes
Procs == {"g1", "g2"}
CallsPerProc == [p \in Procs |-> IF p = "g1" THEN 2 ELSE 1]

(***************************************************************************)
(* strings                                                                 *)
(***************************************************************************)
Empty == <<>>

\* strings.HasPrefix
HasPrefixAt(s, sub, i) ==
    /\ i + Len(sub) - 1 <= Len(s)
    /\ \A k \in 1..Len(sub) : s[i + k - 1] = sub[k]

\* strings.Contains
Contains(s, sub) ==
    \E i \in 1..(Len(s) + 1) : HasPrefixAt(s, sub, i)

RECURSIVE ReplaceFrom(_, _, _, _)
ReplaceFrom(s, old, new, i) ==
    IF i > Len(s) THEN Empty
    ELSE IF HasPrefixAt(s, old, i)
         THEN new \o ReplaceFrom(s, old, new, i + Len(old))
         ELSE <<s[i]>> \o ReplaceFrom(s, old, new, i + 1)

\* strings.ReplaceAll, for a non-empty old: the non-overlapping occurrences,
\* leftmost first
ReplaceAll(s, old, new) == ReplaceFrom(s, old, new, 1)

\* strings.TrimPrefix
TrimPrefix(s, prefix) ==
    IF HasPrefixAt(s, prefix, 1) THEN SubSeq(s, Len(prefix) + 1, Len(s)) ELSE s

\* strings.Split, for a separator of one character
RECURSIVE Split(_, _)
Split(s, sep) ==
    IF \A i \in 1..Len(s) : s[i] # sep THEN <<s>>
    ELSE LET i == CHOOSE k \in 1..Len(s) :
                      s[k] = sep /\ \A j \in 1..(k - 1) : s[j] # sep
         IN <<SubSeq(s, 1, i - 1)>> \o Split(SubSeq(s, i + 1, Len(s)), sep)

\* strings.Join
RECURSIVE Join(_, _)
Join(elems, sep) ==
    IF elems = <<>> THEN Empty
    ELSE IF Len(elems) = 1 THEN elems[1]
    ELSE elems[1] \o sep \o Join(Tail(elems), sep)

\* unicode.ToLower on the letters of the paths of the model
LowerRune(c) ==
    IF c = "C" THEN "c" ELSE IF c = "D" THEN "d" ELSE IF c = "P" THEN "p" ELSE c

\* strings.ToLower
ToLower(s) == [i \in DOMAIN s |-> LowerRune(s[i])]

\* os.PathSeparator and os.IsPathSeparator of the platform
Separator(goos) == IF goos = "windows" THEN "\\" ELSE "/"
IsPathSeparator(goos, c) == c = "/" \/ (goos = "windows" /\ c = "\\")

\* filepath.Clean of a path without "." and ".." elements that does not end
\* in a separator: a run of separators becomes one Separator
RECURSIVE CleanFrom(_, _, _, _)
CleanFrom(goos, s, i, out) ==
    IF i > Len(s) THEN out
    ELSE IF ~IsPathSeparator(goos, s[i])
         THEN CleanFrom(goos, s, i + 1, Append(out, s[i]))
    ELSE IF out # Empty /\ out[Len(out)] = Separator(goos)
         THEN CleanFrom(goos, s, i + 1, out)
    ELSE CleanFrom(goos, s, i + 1, Append(out, Separator(goos)))

Clean(goos, s) == CleanFrom(goos, s, 1, Empty)

\* filepath.Join: the non-empty elements, joined by the Separator, cleaned
FilepathJoin(goos, elems) ==
    Clean(goos, Join(SelectSeq(elems, LAMBDA e : e # Empty), <<Separator(goos)>>))

Digit(d) == <<"0", "1", "2", "3", "4", "5", "6", "7", "8", "9">>[d + 1]

RECURSIVE Digits(_)
Digits(n) == IF n < 10 THEN <<Digit(n)>> ELSE Digits(n \div 10) \o <<Digit(n % 10)>>

\* strconv.Itoa
Itoa(n) == IF n < 0 THEN <<"-">> \o Digits(0 - n) ELSE Digits(n)

(***************************************************************************)
(* values of the program                                                   *)
(***************************************************************************)
\* a nil error; an error is the text of its message
Nil == Empty

ErrImageTagCmdRequired == <<"image or cmd is empty">>

\* the errors the daemon's client returns
ErrContainerCreate == <<"daemon: create failed">>
ErrContainerStart == <<"daemon: start failed">>
ErrContainerLogs == <<"daemon: logs failed">>
ErrRead == <<"unexpected EOF">>
ErrImageList == <<"daemon: image list failed">>
ErrImagePull == <<"daemon: pull failed">>

\* uuid.UUID.String() of the analysis of each API instance
AnalysisIDs == {"uuid-A", "uuid-B"}

\* the i-th value uuid.New().String() returns: never an earlier one, never
\* the analysisID of an API instance
NewUUID(i) == <<"uuid-1", "uuid-2", "uuid-3", "uuid-4">>[i]

\* the ID the daemon gives the i-th container it creates
ContainerID(i) == <<"c1", "c2", "c3", "c4">>[i]

CIDs == {ContainerID(i) : i \in 1..MaxContainers}
NoContainer == "none"

\* images.DefaultRegistry
DefaultRegistry == <<"docker.io">>

Img == <<"horuszup", "/", "safety">>
\* image references PullImage is called with: in the default registry, in
\* another registry, and in another registry under a path that holds
\* "docker.io/"
RefDefault == DefaultRegistry \o <<"/">> \o Img
RefOther == <<"ghcr.io", "/">> \o Img
RefNested == <<"ghcr.io", "/">> \o DefaultRegistry \o <<"/">> \o Img
Refs == {RefDefault, RefOther, RefNested}

\* docker.AnalysisData: the image and the command template of one tool
CmdToken == <<"ANALYSISID">>
Cmds == {Empty, <<"ls">>, <<"cat", " ", "ANALYSISID", "/", "ANALYSISID">>}
AnalysisData == [image : {Empty, Img}, cmd : Cmds]
NoData == [image |-> Empty, cmd |-> Empty]

\* AnalysisData.IsInvalid
IsInvalid(data) == data.image = Empty \/ data.cmd = Empty

\* AnalysisData.GetCustomOrDefaultImage
GetCustomOrDefaultImage(data) == data.image

\* the stdout logs a container can have written: the first n bytes of "ab.."
LogByte(i) == <<"a", "b", "c", "d">>[i]
Outputs == {[i \in 1..n |-> LogByte(i)] : n \in 0..MaxOutLen}

\* ContainerWaitOKBody.StatusCode of a wait result that carries an error
StatusCodes == {-1, 0, 137}
WaitErrorText == "oom"

(***************************************************************************)
(* pure functions of the API                                               *)
(***************************************************************************)
\* API.removeRegistry
removeRegistry(imageWithTagAndRegistry) ==
    ReplaceAll(imageWithTagAndRegistry, DefaultRegistry \o <<"/">>, Empty)

\* replaceCMDAnalysisID with strings.Replace for the first occurrence only
replaceCMDAnalysisID_FirstOnly(cmd, analysisID) ==
    IF ~Contains(cmd, <<"ANALYSISID">>) THEN cmd
    ELSE LET i == CHOOSE k \in 1..Len(cmd) :
                      cmd[k] = "ANALYSISID" /\ \A j \in 1..(k - 1) : cmd[j] # "ANALYSISID"
         IN SubSeq(cmd, 1, i - 1) \o <<analysisID>> \o SubSeq(cmd, i + 1, Len(cmd))

\* API.replaceCMDAnalysisID
replaceCMDAnalysisID(cmd, analysisID) ==
    ReplaceAll(cmd, CmdToken, <<analysisID>>)

\* API.getImageID: the name of a new container, fmt.Sprintf("%s-%s", ..)
getImageID(analysisID, newUUID) == <<analysisID, "-", newUUID>>

\* API.pathDestinyInContainer, set by New
pathDestinyInContainer == "/src"

\* API.getContainerConfig
getContainerConfig(imageNameWithTag, cmd) ==
    [Image |-> imageNameWithTag,
     Tty |-> TRUE,
     Cmd |-> <<"/bin/sh", "-c", <<"cd ", pathDestinyInContainer, " && ">> \o cmd>>]

\* a byte that is not valid UTF-8, and the rune U+FFFD that json.Marshal
\* writes in its place
InvalidByte == "\\xff"
ReplacementRune == "\\ufffd"

\* the JSON string json.Marshal writes for a Go string: coerced to valid UTF-8
JSONString(str) ==
    [i \in DOMAIN str |-> IF str[i] = InvalidByte THEN ReplacementRune ELSE str[i]]

\* json.Marshal of types.AuthConfig: the members of the fields that are not
\* empty (all are omitempty), in the order of the struct
JSONMarshal(authConfig) ==
    SelectSeq(<<[key |-> "username", value |-> JSONString(authConfig.Username)],
                [key |-> "password", value |-> JSONString(authConfig.Password)],
                [key |-> "serveraddress", value |-> JSONString(authConfig.ServerAddress)]>>,
              LAMBDA member : member.value # Empty)

\* base64.URLEncoding.EncodeToString: the text of the bytes in that alphabet
Base64URLEncodeToString(bytes) == [encoding |-> "base64url", of |-> bytes]

NoPullOptions == [RegistryAuth |-> Empty]

\* setPullOptions with the token for either credential
setPullOptions_EitherCredential(authConfig) ==
    IF authConfig.Username # Empty \/ authConfig.Password # Empty
    THEN [RegistryAuth |-> Base64URLEncodeToString(JSONMarshal(authConfig))]
    ELSE NoPullOptions

\* API.setPullOptions, for the settings authConfig of the environment
setPullOptions(authConfig) ==
    IF authConfig.Username # Empty /\ authConfig.Password # Empty
    THEN [RegistryAuth |-> Base64URLEncodeToString(JSONMarshal(authConfig))]
    ELSE NoPullOptions

\* the subfolder of the project that getSourceFolder mounts
HorusecFolder == <<".", "h", "o", "r", "u", "s", "e", "c">>

\* getSourceFolderFromWindows without strings.ToLower on the drive letter
getSourceFolderFromWindows_KeepCase(path) ==
    LET noColon == ReplaceAll(path, <<":">>, Empty)
        slashed == <<"/">> \o noColon
        forward == ReplaceAll(slashed, <<"\\">>, <<"/">>)
    IN ReplaceAll(forward, <<"/">>, <<"/", "/">>)

\* API.getSourceFolderFromWindows
getSourceFolderFromWindows(path) ==
    LET partitionLower == ToLower(SubSeq(path, 1, 1))
        pathSplit == Split(path, ":")
        joined == Join([pathSplit EXCEPT ![1] = partitionLower], <<":">>)
        noColon == ReplaceAll(joined, <<":">>, Empty)
        slashed == <<"/">> \o noColon
        forward == ReplaceAll(slashed, <<"\\">>, <<"/">>)
    IN ReplaceAll(forward, <<"/">>, <<"/", "/">>)

\* API.getSourceFolder, for the configuration cfg of the API
getSourceFolder(cfg, analysisID) ==
    LET path == IF cfg.ContainerBindProjectPath # Empty
                THEN FilepathJoin(cfg.GOOS, <<cfg.ContainerBindProjectPath,
                                              HorusecFolder, <<analysisID>>>>)
                ELSE FilepathJoin(cfg.GOOS, <<cfg.ProjectPath,
                                              HorusecFolder, <<analysisID>>>>)
        separator == SubSeq(path, 2, 2)
    IN IF separator = <<":">> THEN getSourceFolderFromWindows(path) ELSE path

\* API.getContainerHostConfig: the bind mount
getContainerHostConfig(cfg, analysisID) ==
    [Source |-> getSourceFolder(cfg, analysisID), Target |-> pathDestinyInContainer]

\* listContainersByAnalysisID asking for the running containers only
listContainersByAnalysisID_RunningOnly(analysisID) == [all |-> FALSE, name |-> <<analysisID>>]

\* listContainersByAnalysisID without the name filter
listContainersByAnalysisID_NoFilter(analysisID) == [all |-> TRUE, name |-> Empty]

\* API.listContainersByAnalysisID: the filter of the list request
listContainersByAnalysisID(analysisID) == [all |-> TRUE, name |-> <<analysisID>>]

\* the error of readContainer without the exit status
WaitErrorMessage_NoStatus(containerID, message, statusCode) ==
    <<"Error on wait container ", containerID, ": ", message>>

\* API.readContainer: the error made from a wait result that carries an error
WaitErrorMessage(containerID, message, statusCode) ==
    <<"Error on wait container ", containerID, ": ", message,
      " | Exited with status ">> \o Itoa(statusCode)

\* API.readOutputAsString: what it returns when io.ReadAll returned (b, err)
readOutputAsString(b, err) ==
    IF err # Nil THEN [out |-> Empty, err |-> err] ELSE [out |-> b, err |-> err]

\* API.executeCRDContainer: what it returns when readContainer returned r
\* with an error
executeCRDContainerError(r) == [out |-> Empty, err |-> r.err]

\* executeCRDContainer returning the error of ContainerRemove
executeCRDContainerRemoved_ReturnRemoveError(r, removeErr) ==
    IF removeErr # Nil THEN [out |-> Empty, err |-> removeErr]
    ELSE [out |-> r.out, err |-> Nil]

\* API.executeCRDContainer: what it returns after removeContainer, whose
\* ContainerRemove returned removeErr, when readContainer returned r
executeCRDContainerRemoved(r, removeErr) == [out |-> r.out, err |-> Nil]

\* logStatusAndExecuteCRDContainer with the text of the error as the output
\* of a failed run
logStatusAndExecuteCRDContainer_ErrorAsOutput(r) ==
    IF r.err # Nil THEN [out |-> r.err, err |-> r.err] ELSE [out |-> r.out, err |-> Nil]

\* API.logStatusAndExecuteCRDContainer: what it returns when
\* executeCRDContainer returned r
logStatusAndExecuteCRDContainer(r) ==
    IF r.err # Nil THEN [out |-> Empty, err |-> r.err] ELSE [out |-> r.out, err |-> Nil]

(***************************************************************************)
(* the docker daemon                                                       *)
(***************************************************************************)
NoConfig == [Image |-> Empty, Tty |-> FALSE, Cmd |-> Empty]
NoHostConfig == [Source |-> Empty, Target |-> ""]
NoSuchContainer ==
    [state |-> "none", name |-> Empty, config |-> NoConfig, host |-> NoHostConfig,
     owner |-> "none"]

\* a container the daemon holds: created, running or exited
Exists(c) == c.state \in {"created", "running", "exited"}

\* Client.ContainerList: the containers, stopped ones too when all is set,
\* whose name contains the name filter
ContainerList(cs, options) ==
    {id \in DOMAIN cs :
        /\ Exists(cs[id])
        /\ (options.all \/ cs[id].state = "running")
        /\ Contains(cs[id].name, options.name)}

\* Client.ImageList: the cached images the reference filter names
ImageList(imgs, reference) == {i \in imgs : i = reference}

\* the name under which the daemon caches a pulled image: the reference
\* without the default registry in front
FamiliarName(ref) == TrimPrefix(ref, DefaultRegistry \o <<"/">>)

\* the order in which the daemon lists containers: the latest first
RECURSIVE LatestFirst(_, _)
LatestFirst(ids, i) ==
    IF i = 0 THEN Empty
    ELSE (IF ContainerID(i) \in ids THEN <<ContainerID(i)>> ELSE Empty)
         \o LatestFirst(ids, i - 1)

(***************************************************************************)
(* state                                                                   *)
(***************************************************************************)
VARIABLES
    config,      \* what the process runs with: config.Config, the environment, the platform
    mutex,       \* API.mutex of each API instance: the goroutine holding it
    containers,  \* the daemon: the container of each ID
    created,     \* the daemon: how many containers it has created
    images,      \* the daemon: the names of the cached images
    pc,          \* each goroutine: where it is in its call
    op,          \* each goroutine: the method it is in
    api,         \* each goroutine: the analysisID of the API instance it calls
    data,        \* CreateLanguageAnalysisContainer: data
    cmd,         \* CreateLanguageAnalysisContainer: the command after replaceCMDAnalysisID
    ref,         \* PullImage: imageWithTagAndRegistry
    cid,         \* createContainer: response.ID
    read,        \* executeCRDContainer: what readContainer returned
    todo,        \* DeleteContainersFromAPI: the listed containers not yet visited
    result,      \* each goroutine: what its last call returned
    ncalls,      \* each goroutine: the calls it has made
    calls,       \* each goroutine: the requests its call has sent, by kind
    obs,         \* each goroutine: what the daemon answered during its call
    removals     \* every ContainerRemove request sent: by whom, from where, for what

vars == <<config, mutex, containers, created, images, pc, op, api, data, cmd, ref,
          cid, read, todo, result, ncalls, calls, obs, removals>>

daemon == <<containers, created, images>>
locals == <<data, cmd, ref, cid, read, todo>>

NoCalls ==
    [create |-> 0, start |-> 0, wait |-> 0, logs |-> 0, remove |-> 0,
     clist |-> 0, ilist |-> 0, pull |-> 0, lock |-> 0]

NoObs ==
    [failed |-> "none",      \* the request that failed: create, start, wait, logs, read
     wait |-> "none",        \* the wait result: clean, error, errchan
     status |-> 0,           \* StatusCode of a wait result with an error
     stream |-> Empty,       \* the whole log stream ContainerLogs returned
     got |-> Empty,          \* the bytes io.ReadAll read from it
     remove |-> "none",      \* how the invocation's ContainerRemove ended: ok, fail
     filter |-> Empty,       \* the reference filter of the ImageList request
     matches |-> -1,         \* the number of images ImageList returned
     pulled |-> Empty,       \* the references of the ImagePull requests
     options |-> NoPullOptions, \* the options of the ImagePull request
     pullread |-> "none",    \* how reading the pull stream ended: ok, fail
     atlist |-> {},          \* the containers the daemon held at ContainerList
     listed |-> "none",      \* how ContainerList ended: ok, fail
     unremoved |-> {}]       \* the listed containers whose ContainerRemove failed

NoResult == [out |-> Empty, err |-> Nil]

\* HORUSEC_CLI_REGISTRY_USERNAME, _PASSWORD and _ADDRESS all unset
NoEnv == [Username |-> Empty, Password |-> Empty, ServerAddress |-> Empty]

\* config.Config (DisableDocker, ProjectPath, ContainerBindProjectPath), the
\* environment variables setPullOptions reads, and the platform of the build
Settings(projectPaths, bindPaths, envs, platforms) ==
    [DisableDocker : BOOLEAN,
     ProjectPath : projectPaths,
     ContainerBindProjectPath : bindPaths,
     env : envs,
     GOOS : platforms]

\* the state after New, for each of the given settings of the process
InitWith(settings) ==
    /\ config \in settings
    /\ mutex = [a \in AnalysisIDs |-> "free"]
    /\ containers = [id \in CIDs |-> NoSuchContainer]
    /\ created = 0
    /\ images = {}
    /\ pc = [p \in Procs |-> "idle"]
    /\ op = [p \in Procs |-> "none"]
    /\ api \in {f \in [Procs -> AnalysisIDs] : f["g1"] = "uuid-A"}
    /\ data = [p \in Procs |-> NoData]
    /\ cmd = [p \in Procs |-> Empty]
    /\ ref = [p \in Procs |-> Empty]
    /\ cid = [p \in Procs |-> NoContainer]
    /\ read = [p \in Procs |-> NoResult]
    /\ todo = [p \in Procs |-> Empty]
    /\ result = [p \in Procs |-> NoResult]
    /\ ncalls = [p \in Procs |-> 0]
    /\ calls = [p \in Procs |-> NoCalls]
    /\ obs = [p \in Procs |-> NoObs]
    /\ removals = {}

Init == InitWith(Settings({<<"/", "p">>}, {Empty}, {NoEnv}, {"linux"}))

\* a goroutine that can make its next call
CanCall(p) == pc[p] \in {"idle", "done"} /\ ncalls[p] < CallsPerProc[p]

\* the start of a call: the locals and the record of the call are fresh
Enter(p, method) ==
    /\ op' = [op EXCEPT ![p] = method]
    /\ ncalls' = [ncalls EXCEPT ![p] = @ + 1]

\* the call of p returns r
Return(p, r) ==
    /\ pc' = [pc EXCEPT ![p] = "done"]
    /\ result' = [result EXCEPT ![p] = r]

\* the ContainerRemove request for container id that call number ncalls[p] of
\* p sends from method
Removal(p, method, id) == [by |-> p, call |-> ncalls[p], from |-> method, id |-> id]

Count(p, kind) == [calls EXCEPT ![p][kind] = @ + 1]

(***************************************************************************)
(* CreateLanguageAnalysisContainer                                         *)
(***************************************************************************)
\* containers created, or about to be: the bound of the model
Reserved == created + Cardinality({q \in Procs : pc[q] = "create"})

\* the request that failed in the call of p, and the error the call returns
Fail(p, request, err) ==
    /\ Return(p, logStatusAndExecuteCRDContainer(
                    executeCRDContainerError([out |-> Empty, err |-> err])))
    /\ obs' = [obs EXCEPT ![p].failed = request]

\* CreateLanguageAnalysisContainer without the check of data.IsInvalid
CreateLanguageAnalysisContainer_NoValidation(p) ==
    /\ CanCall(p)
    /\ \E d \in AnalysisData :
        /\ Reserved < MaxContainers
        /\ Enter(p, "run")
        /\ data' = [data EXCEPT ![p] = d]
        /\ calls' = [calls EXCEPT ![p] = NoCalls]
        /\ obs' = [obs EXCEPT ![p] = NoObs]
        /\ cid' = [cid EXCEPT ![p] = NoContainer]
        /\ read' = [read EXCEPT ![p] = NoResult]
        /\ pc' = [pc EXCEPT ![p] = "create"]
        /\ result' = [result EXCEPT ![p] = NoResult]
        /\ cmd' = [cmd EXCEPT ![p] = replaceCMDAnalysisID(d.cmd, api[p])]
    /\ UNCHANGED <<config, mutex, daemon, api, ref, todo, removals>>

\* the call, to the ContainerCreate request
CreateLanguageAnalysisContainer(p) ==
    /\ CanCall(p)
    /\ \E d \in AnalysisData :
        /\ IsInvalid(d) \/ Reserved < MaxContainers
        /\ Enter(p, "run")
        /\ data' = [data EXCEPT ![p] = d]
        /\ calls' = [calls EXCEPT ![p] = NoCalls]
        /\ obs' = [obs EXCEPT ![p] = NoObs]
        /\ cid' = [cid EXCEPT ![p] = NoContainer]
        /\ read' = [read EXCEPT ![p] = NoResult]
        /\ IF IsInvalid(d)
           THEN /\ Return(p, [out |-> Empty, err |-> ErrImageTagCmdRequired])
                /\ cmd' = [cmd EXCEPT ![p] = Empty]
           ELSE /\ pc' = [pc EXCEPT ![p] = "create"]
                /\ result' = [result EXCEPT ![p] = NoResult]
                /\ cmd' = [cmd EXCEPT ![p] = replaceCMDAnalysisID(d.cmd, api[p])]
    /\ UNCHANGED <<config, mutex, daemon, api, ref, todo, removals>>

\* createContainer: ContainerCreate answers
createContainer_ContainerCreate(p) ==
    /\ pc[p] = "create"
    /\ calls' = Count(p, "create")
    /\ \/ /\ Fail(p, "create", ErrContainerCreate)
          /\ UNCHANGED <<containers, created, cid>>
       \/ LET id == ContainerID(created + 1) IN
          /\ created' = created + 1
          /\ containers' = [containers EXCEPT ![id] =
                [state |-> "created",
                 name |-> getImageID(api[p], NewUUID(created + 1)),
                 config |-> getContainerConfig(GetCustomOrDefaultImage(data[p]), cmd[p]),
                 host |-> getContainerHostConfig(config, api[p]),
                 owner |-> api[p]]]
          /\ cid' = [cid EXCEPT ![p] = id]
          /\ pc' = [pc EXCEPT ![p] = "start"]
          /\ UNCHANGED <<result, obs>>
    /\ UNCHANGED <<config, mutex, images, op, api, data, cmd, ref, read, todo,
                   ncalls, removals>>

\* createContainer removing the container whose ContainerStart failed
createContainer_ContainerStart_RemoveOnError(p) ==
    /\ pc[p] = "start"
    /\ \/ /\ Fail(p, "start", ErrContainerStart)
          /\ calls' = [calls EXCEPT ![p].start = @ + 1, ![p].remove = @ + 1]
          /\ removals' = removals \cup {Removal(p, "run", cid[p])}
          /\ containers' = [containers EXCEPT ![cid[p]].state =
                                IF Exists(containers[cid[p]]) THEN "removed" ELSE @]
       \/ /\ Exists(containers[cid[p]])
          /\ calls' = Count(p, "start")
          /\ containers' = [containers EXCEPT ![cid[p]].state = "running"]
          /\ pc' = [pc EXCEPT ![p] = "wait"]
          /\ UNCHANGED <<result, obs, removals>>
    /\ UNCHANGED <<config, mutex, created, images, op, api, locals, ncalls>>

\* createContainer going on to the wait after a ContainerStart that failed
createContainer_ContainerStart_IgnoreError(p) ==
    /\ pc[p] = "start"
    /\ calls' = Count(p, "start")
    /\ \/ /\ obs' = [obs EXCEPT ![p].failed = "start"]
          /\ pc' = [pc EXCEPT ![p] = "wait"]
          /\ UNCHANGED <<result, containers>>
       \/ /\ Exists(containers[cid[p]])
          /\ containers' = [containers EXCEPT ![cid[p]].state = "running"]
          /\ pc' = [pc EXCEPT ![p] = "wait"]
          /\ UNCHANGED <<result, obs>>
    /\ UNCHANGED <<config, mutex, created, images, op, api, locals, ncalls, removals>>

\* createContainer: ContainerStart answers
createContainer_ContainerStart(p) ==
    /\ pc[p] = "start"
    /\ calls' = Count(p, "start")
    /\ \/ /\ Fail(p, "start", ErrContainerStart)
          /\ UNCHANGED containers
       \/ /\ Exists(containers[cid[p]])
          /\ containers' = [containers EXCEPT ![cid[p]].state = "running"]
          /\ pc' = [pc EXCEPT ![p] = "wait"]
          /\ UNCHANGED <<result, obs>>
    /\ UNCHANGED <<config, mutex, created, images, op, api, locals, ncalls, removals>>

\* readContainer going on to the logs without the receive from the status
\* channel
readContainer_ContainerWait_NoReceive(p) ==
    /\ pc[p] = "wait"
    /\ calls' = Count(p, "wait")
    /\ pc' = [pc EXCEPT ![p] = "logs"]
    /\ UNCHANGED <<config, mutex, daemon, op, api, locals, result, ncalls, obs, removals>>

\* readContainer: ContainerWait is sent; the goroutine receives from the
\* status channel
readContainer_ContainerWait(p) ==
    /\ pc[p] = "wait"
    /\ calls' = Count(p, "wait")
    /\ pc' = [pc EXCEPT ![p] = "waiting"]
    /\ UNCHANGED <<config, mutex, daemon, op, api, locals, result, ncalls, obs, removals>>

\* readContainer: the daemon answers the wait: a status without an error, a
\* status with one, or an error on the error channel, which readContainer
\* dropped: the goroutine then stays at its receive
readContainer_WaitAnswer(p) ==
    /\ pc[p] = "waiting"
    /\ obs[p].wait = "none"
    /\ \/ /\ obs' = [obs EXCEPT ![p].wait = "clean"]
          /\ pc' = [pc EXCEPT ![p] = "logs"]
          /\ containers' = [containers EXCEPT ![cid[p]].state =
                                IF @ = "running" THEN "exited" ELSE @]
          /\ UNCHANGED result
       \/ \E code \in StatusCodes :
          /\ Return(p, logStatusAndExecuteCRDContainer(executeCRDContainerError(
                [out |-> Empty, err |-> WaitErrorMessage(cid[p], WaitErrorText, code)])))
          /\ obs' = [obs EXCEPT ![p].wait = "error", ![p].status = code,
                                ![p].failed = "wait"]
          /\ containers' = [containers EXCEPT ![cid[p]].state =
                                IF @ = "running" THEN "exited" ELSE @]
       \/ /\ obs' = [obs EXCEPT ![p].wait = "errchan", ![p].failed = "wait"]
          /\ UNCHANGED <<pc, result, containers>>
    /\ UNCHANGED <<config, mutex, created, images, op, api, locals, ncalls, calls,
                   removals>>

\* readContainer: ContainerLogs answers
readContainer_ContainerLogs(p) ==
    /\ pc[p] = "logs"
    /\ calls' = Count(p, "logs")
    /\ \/ Fail(p, "logs", ErrContainerLogs)
       \/ /\ Exists(containers[cid[p]])
          /\ pc' = [pc EXCEPT ![p] = "read"]
          /\ UNCHANGED <<result, obs>>
    /\ UNCHANGED <<config, mutex, daemon, op, api, locals, ncalls, removals>>

\* readContainer: readOutputAsString: io.ReadAll reads the stream s to its end,
\* or fails after k bytes
readContainer_readOutputAsString(p) ==
    /\ pc[p] = "read"
    /\ \E s \in Outputs, k \in 0..MaxOutLen, err \in {Nil, ErrRead} :
        /\ k <= Len(s)
        /\ err = Nil => k = Len(s)
        /\ LET r == readOutputAsString(SubSeq(s, 1, k), err) IN
           IF r.err # Nil
           THEN /\ Return(p, logStatusAndExecuteCRDContainer(executeCRDContainerError(r)))
                /\ obs' = [obs EXCEPT ![p].stream = s, ![p].got = SubSeq(s, 1, k),
                                      ![p].failed = "read"]
                /\ UNCHANGED read
           ELSE /\ read' = [read EXCEPT ![p] = r]
                /\ pc' = [pc EXCEPT ![p] = "remove"]
                /\ obs' = [obs EXCEPT ![p].stream = s, ![p].got = SubSeq(s, 1, k)]
                /\ UNCHANGED result
    /\ UNCHANGED <<config, mutex, daemon, op, api, data, cmd, ref, cid, todo, ncalls,
                   calls, removals>>

\* removeContainer: ContainerRemove, forced, answers; executeCRDContainer and
\* logStatusAndExecuteCRDContainer return
removeContainer(p) ==
    /\ pc[p] = "remove"
    /\ calls' = Count(p, "remove")
    /\ removals' = removals \cup {Removal(p, "run", cid[p])}
    /\ \E removeErr \in {Nil, <<"daemon: remove failed">>} :
        /\ removeErr = Nil => Exists(containers[cid[p]])
        /\ containers' = IF removeErr = Nil
                         THEN [containers EXCEPT ![cid[p]].state = "removed"]
                         ELSE containers
        /\ obs' = [obs EXCEPT ![p].remove = IF removeErr = Nil THEN "ok" ELSE "fail"]
        /\ Return(p, logStatusAndExecuteCRDContainer(
                        executeCRDContainerRemoved(read[p], removeErr)))
    /\ UNCHANGED <<config, mutex, created, images, op, api, locals, ncalls>>

(***************************************************************************)
(* PullImage                                                               *)
(***************************************************************************)
\* PullImage without the check of config.DisableDocker
PullImage_IgnoreDisableDocker(p) ==
    /\ CanCall(p)
    /\ \E r \in Refs :
        /\ Enter(p, "pull")
        /\ ref' = [ref EXCEPT ![p] = r]
        /\ calls' = [calls EXCEPT ![p] = NoCalls]
        /\ obs' = [obs EXCEPT ![p] = NoObs]
        /\ pc' = [pc EXCEPT ![p] = "lock"]
        /\ result' = [result EXCEPT ![p] = NoResult]
    /\ UNCHANGED <<config, mutex, daemon, api, data, cmd, cid, read, todo, removals>>

\* the call, to the mutex of checkIfImageNotExists
PullImage(p) ==
    /\ CanCall(p)
    /\ \E r \in Refs :
        /\ Enter(p, "pull")
        /\ ref' = [ref EXCEPT ![p] = r]
        /\ calls' = [calls EXCEPT ![p] = NoCalls]
        /\ obs' = [obs EXCEPT ![p] = NoObs]
        /\ IF config.DisableDocker
           THEN Return(p, [out |-> Empty, err |-> Nil])
           ELSE /\ pc' = [pc EXCEPT ![p] = "lock"]
                /\ result' = [result EXCEPT ![p] = NoResult]
    /\ UNCHANGED <<config, mutex, daemon, api, data, cmd, cid, read, todo, removals>>

\* checkIfImageNotExists: mutex.Lock
checkIfImageNotExists_Lock(p) ==
    /\ pc[p] = "lock"
    /\ mutex[api[p]] = "free"
    /\ mutex' = [mutex EXCEPT ![api[p]] = p]
    /\ calls' = Count(p, "lock")
    /\ pc' = [pc EXCEPT ![p] = "imagelist"]
    /\ UNCHANGED <<config, daemon, op, api, locals, result, ncalls, obs, removals>>

\* checkIfImageNotExists keeping the mutex for the pull when it found no image
checkIfImageNotExists_KeepLockForPull(p) ==
    /\ pc[p] = "imagelist"
    /\ calls' = Count(p, "ilist")
    /\ LET reference == removeRegistry(ref[p])
           found == ImageList(images, reference)
       IN \/ /\ Return(p, [out |-> Empty, err |-> ErrImageList])
             /\ obs' = [obs EXCEPT ![p].filter = reference, ![p].failed = "ilist"]
             /\ mutex' = [mutex EXCEPT ![api[p]] = "free"]
          \/ /\ obs' = [obs EXCEPT ![p].filter = reference,
                                   ![p].matches = Cardinality(found)]
             /\ IF Cardinality(found) = 0
                THEN /\ pc' = [pc EXCEPT ![p] = "pull"]
                     /\ UNCHANGED <<result, mutex>>
                ELSE /\ Return(p, [out |-> Empty, err |-> Nil])
                     /\ mutex' = [mutex EXCEPT ![api[p]] = "free"]
    /\ UNCHANGED <<config, daemon, op, api, locals, ncalls, removals>>

\* checkIfImageNotExists with mutex.Unlock before the return of the result
\* only, not deferred: the return of the error of ImageList keeps the mutex
checkIfImageNotExists_UnlockOnSuccessOnly(p) ==
    /\ pc[p] = "imagelist"
    /\ calls' = Count(p, "ilist")
    /\ LET reference == removeRegistry(ref[p])
           found == ImageList(images, reference)
       IN \/ /\ Return(p, [out |-> Empty, err |-> ErrImageList])
             /\ obs' = [obs EXCEPT ![p].filter = reference, ![p].failed = "ilist"]
             /\ UNCHANGED mutex
          \/ /\ obs' = [obs EXCEPT ![p].filter = reference,
                                   ![p].matches = Cardinality(found)]
             /\ mutex' = [mutex EXCEPT ![api[p]] = "free"]
             /\ IF Cardinality(found) = 0
                THEN /\ pc' = [pc EXCEPT ![p] = "pull"]
                     /\ UNCHANGED result
                ELSE Return(p, [out |-> Empty, err |-> Nil])
    /\ UNCHANGED <<config, daemon, op, api, locals, ncalls, removals>>

\* checkIfImageNotExists: ImageList answers, the deferred mutex.Unlock runs,
\* and PullImage returns or goes on to downloadImage
checkIfImageNotExists_ImageList(p) ==
    /\ pc[p] = "imagelist"
    /\ calls' = Count(p, "ilist")
    /\ mutex' = [mutex EXCEPT ![api[p]] = "free"]
    /\ LET reference == removeRegistry(ref[p])
           found == ImageList(images, reference)
       IN \/ /\ Return(p, [out |-> Empty, err |-> ErrImageList])
             /\ obs' = [obs EXCEPT ![p].filter = reference, ![p].failed = "ilist"]
          \/ /\ obs' = [obs EXCEPT ![p].filter = reference,
                                   ![p].matches = Cardinality(found)]
             /\ IF Cardinality(found) = 0
                THEN /\ pc' = [pc EXCEPT ![p] = "pull"]
                     /\ UNCHANGED result
                ELSE Return(p, [out |-> Empty, err |-> Nil])
    /\ UNCHANGED <<config, daemon, op, api, locals, ncalls, removals>>

\* downloadImage: ImagePull answers
downloadImage(p) ==
    /\ pc[p] = "pull"
    /\ calls' = Count(p, "pull")
    /\ \/ /\ Return(p, [out |-> Empty, err |-> ErrImagePull])
          /\ obs' = [obs EXCEPT ![p].pulled = Append(@, ref[p]),
                                   ![p].options = setPullOptions(config.env),
                                   ![p].failed = "pull"]
       \/ /\ pc' = [pc EXCEPT ![p] = "pullread"]
          /\ obs' = [obs EXCEPT ![p].pulled = Append(@, ref[p]),
                                   ![p].options = setPullOptions(config.env)]
          /\ UNCHANGED result
    /\ UNCHANGED <<config, mutex, daemon, op, api, locals, ncalls, removals>>

\* readPullReader returning nil whatever io.ReadAll returned
readPullReader_IgnoreReadError(p) ==
    /\ pc[p] = "pullread"
    /\ \/ /\ Return(p, [out |-> Empty, err |-> Nil])
          /\ obs' = [obs EXCEPT ![p].pullread = "fail", ![p].failed = "pullread"]
          /\ UNCHANGED images
       \/ /\ Return(p, [out |-> Empty, err |-> Nil])
          /\ obs' = [obs EXCEPT ![p].pullread = "ok"]
          /\ images' = images \cup {FamiliarName(ref[p])}
    /\ UNCHANGED <<config, mutex, containers, created, op, api, locals, ncalls, calls,
                   removals>>

\* readPullReader: io.ReadAll reads the answer of the pull to its end, and
\* the daemon has the image, or fails
readPullReader(p) ==
    /\ pc[p] = "pullread"
    /\ \/ /\ Return(p, [out |-> Empty, err |-> ErrRead])
          /\ obs' = [obs EXCEPT ![p].pullread = "fail", ![p].failed = "pullread"]
          /\ UNCHANGED images
       \/ /\ Return(p, [out |-> Empty, err |-> Nil])
          /\ obs' = [obs EXCEPT ![p].pullread = "ok"]
          /\ images' = images \cup {FamiliarName(ref[p])}
    /\ UNCHANGED <<config, mutex, containers, created, op, api, locals, ncalls, calls,
                   removals>>

(***************************************************************************)
(* DeleteContainersFromAPI                                                 *)
(***************************************************************************)
\* the call: ContainerList answers
DeleteContainersFromAPI(p) ==
    /\ CanCall(p)
    /\ Enter(p, "delete")
    /\ calls' = [calls EXCEPT ![p] = [NoCalls EXCEPT !.clist = 1]]
    /\ \/ /\ obs' = [obs EXCEPT ![p] = [NoObs EXCEPT !.listed = "fail"]]
          /\ todo' = [todo EXCEPT ![p] = Empty]
          /\ Return(p, NoResult)
       \/ LET found == ContainerList(containers, listContainersByAnalysisID(api[p]))
              list == LatestFirst(found, created)
          IN /\ obs' = [obs EXCEPT ![p] =
                    [NoObs EXCEPT !.listed = "ok",
                                  !.atlist = {id \in CIDs : Exists(containers[id])}]]
             /\ todo' = [todo EXCEPT ![p] = list]
             /\ IF list = Empty
                THEN Return(p, NoResult)
                ELSE /\ pc' = [pc EXCEPT ![p] = "removing"]
                     /\ result' = [result EXCEPT ![p] = NoResult]
    /\ UNCHANGED <<config, mutex, daemon, api, data, cmd, ref, cid, read, removals>>

\* the loop of DeleteContainersFromAPI waiting, before each ContainerRemove,
\* for the invocation that holds the container to return
DeleteContainersFromAPI_WaitForInvocation(p) ==
    /\ pc[p] = "removing"
    /\ LET id == Head(todo[p]) IN
        /\ \A q \in Procs : ~(op[q] = "run" /\ cid[q] = id /\ pc[q] # "done")
        /\ calls' = Count(p, "remove")
        /\ removals' = removals \cup {Removal(p, "delete", id)}
        /\ \E err \in {Nil, <<"daemon: remove failed">>} :
            /\ err = Nil => Exists(containers[id])
            /\ containers' = IF err = Nil
                             THEN [containers EXCEPT ![id].state = "removed"]
                             ELSE containers
            /\ obs' = IF err = Nil THEN obs
                      ELSE [obs EXCEPT ![p].unremoved = @ \cup {id}]
        /\ todo' = [todo EXCEPT ![p] = Tail(@)]
        /\ IF Tail(todo[p]) = Empty
           THEN Return(p, NoResult)
           ELSE UNCHANGED <<pc, result>>
    /\ UNCHANGED <<config, mutex, created, images, op, api, data, cmd, ref, cid, read,
                   ncalls>>

\* the loop of DeleteContainersFromAPI returning at the first ContainerRemove
\* that fails
DeleteContainersFromAPI_StopOnError(p) ==
    /\ pc[p] = "removing"
    /\ LET id == Head(todo[p]) IN
        /\ calls' = Count(p, "remove")
        /\ removals' = removals \cup {Removal(p, "delete", id)}
        /\ \E err \in {Nil, <<"daemon: remove failed">>} :
            /\ err = Nil => Exists(containers[id])
            /\ containers' = IF err = Nil
                             THEN [containers EXCEPT ![id].state = "removed"]
                             ELSE containers
            /\ obs' = IF err = Nil THEN obs
                      ELSE [obs EXCEPT ![p].unremoved = @ \cup {id}]
            /\ todo' = [todo EXCEPT ![p] = IF err = Nil THEN Tail(@) ELSE Empty]
            /\ IF Tail(todo[p]) = Empty \/ err # Nil
               THEN Return(p, NoResult)
               ELSE UNCHANGED <<pc, result>>
    /\ UNCHANGED <<config, mutex, created, images, op, api, data, cmd, ref, cid, read,
                   ncalls>>

\* one turn of the loop: ContainerRemove, forced, answers
DeleteContainersFromAPI_ContainerRemove(p) ==
    /\ pc[p] = "removing"
    /\ LET id == Head(todo[p]) IN
        /\ calls' = Count(p, "remove")
        /\ removals' = removals \cup {Removal(p, "delete", id)}
        /\ \E err \in {Nil, <<"daemon: remove failed">>} :
            /\ err = Nil => Exists(containers[id])
            /\ containers' = IF err = Nil
                             THEN [containers EXCEPT ![id].state = "removed"]
                             ELSE containers
            /\ obs' = IF err = Nil THEN obs
                      ELSE [obs EXCEPT ![p].unremoved = @ \cup {id}]
        /\ todo' = [todo EXCEPT ![p] = Tail(@)]
        /\ IF Tail(todo[p]) = Empty
           THEN Return(p, NoResult)
           ELSE UNCHANGED <<pc, result>>
    /\ UNCHANGED <<config, mutex, created, images, op, api, data, cmd, ref, cid, read,
                   ncalls>>

(***************************************************************************)
(* the specification                                                       *)
(***************************************************************************)
\* a step of the invocation of CreateLanguageAnalysisContainer by p
RunStep(p) ==
    \/ createContainer_ContainerCreate(p)
    \/ createContainer_ContainerStart(p)
    \/ readContainer_ContainerWait(p)
    \/ readContainer_WaitAnswer(p)
    \/ readContainer_ContainerLogs(p)
    \/ readContainer_readOutputAsString(p)
    \/ removeContainer(p)

Next ==
    \E p \in Procs :
        \/ CreateLanguageAnalysisContainer(p)
        \/ createContainer_ContainerCreate(p)
        \/ createContainer_ContainerStart(p)
        \/ readContainer_ContainerWait(p)
        \/ readContainer_WaitAnswer(p)
        \/ readContainer_ContainerLogs(p)
        \/ readContainer_readOutputAsString(p)
        \/ removeContainer(p)
        \/ PullImage(p)
        \/ checkIfImageNotExists_Lock(p)
        \/ checkIfImageNotExists_ImageList(p)
        \/ downloadImage(p)
        \/ readPullReader(p)
        \/ DeleteContainersFromAPI(p)
        \/ DeleteContainersFromAPI_ContainerRemove(p)

Spec == Init /\ [][Next]_vars

(***************************************************************************)
(* the goroutines call PullImage only                                      *)
(***************************************************************************)
\* the values of the three registry variables of the environment
Envs == [Username : {Empty, <<"u">>},
         Password : {Empty, <<"p">>, <<"p", InvalidByte>>},
         ServerAddress : {Empty, <<"r">>}]

PullInit == InitWith(Settings({<<"/", "p">>}, {Empty}, Envs, {"linux"}))

PullNext ==
    \E p \in Procs :
        \/ PullImage(p)
        \/ checkIfImageNotExists_Lock(p)
        \/ checkIfImageNotExists_ImageList(p)
        \/ downloadImage(p)
        \/ readPullReader(p)

PullSpec == PullInit /\ [][PullNext]_vars

\* the project paths and the bind paths of the configurations: absolute,
\* with a drive letter and either separator, with a second colon, and none
ProjectPaths ==
    {<<"/", "p">>, <<"C", ":", "\\", "P">>, <<"c", ":", "/", "p">>,
     <<"D", ":", "\\", "p", ":", "/", "p">>, Empty}
BindPaths == {Empty, <<"D", ":", "\\", "p">>, <<"/", "p">>}

\* the API instances of every configuration of the paths, on either
\* platform, creating containers
CreateInit == InitWith(Settings(ProjectPaths, BindPaths, {NoEnv}, {"linux", "windows"}))

CreateNext ==
    \E p \in Procs :
        \/ CreateLanguageAnalysisContainer(p)
        \/ createContainer_ContainerCreate(p)

CreateSpec == CreateInit /\ [][CreateNext]_vars

\* sync.RWMutex.Lock returns once the mutex is free and stays free, and
\* every ImageList request is answered
PullFairness ==
    \A p \in Procs :
        /\ WF_vars(checkIfImageNotExists_Lock(p))
        /\ WF_vars(checkIfImageNotExists_ImageList(p))

FairPullSpec == PullSpec /\ PullFairness

(***************************************************************************)
(* properties                                                              *)
(***************************************************************************)
\* the call of p in method has returned
Done(p, method) == pc[p] = "done" /\ op[p] = method

\* C1: every invocation of CreateLanguageAnalysisContainer whose create,
\* start and wait succeeded (the wait result carries no error) has sent a
\* ContainerRemove for its container when it returns, whether ContainerLogs
\* and the read of its stream succeeded or failed.
C1_RemoveAfterCleanWait ==
    \A p \in Procs :
        (Done(p, "run") /\ obs[p].wait = "clean")
            => /\ calls[p].remove = 1
               /\ Removal(p, "run", cid[p]) \in removals

\* C2: a call of CreateLanguageAnalysisContainer with an empty image or an
\* empty command returns ErrImageTagCmdRequired and an empty output, and has
\* sent no request to the daemon and taken no lock, whatever the other
\* goroutines do meanwhile.
C2_InvalidDataNoEngineCall ==
    \A p \in Procs :
        (Done(p, "run") /\ (data[p].image = Empty \/ data[p].cmd = Empty))
            => /\ result[p] = [out |-> Empty, err |-> ErrImageTagCmdRequired]
               /\ calls[p] = NoCalls
               /\ cid[p] = NoContainer
               /\ \A r \in removals : ~(r.by = p /\ r.call = ncalls[p])

\* a call with an empty image or an empty command (not both) has returned
\* while the other goroutine is in the middle of a call
C2_Witness ==
    \E p, q \in Procs :
        /\ Done(p, "run")
        /\ data[p].image = Empty \/ data[p].cmd = Empty
        /\ data[p].image # data[p].cmd
        /\ pc[q] \in {"start", "waiting", "imagelist", "removing"}

\* C3: whenever CreateLanguageAnalysisContainer returns an error, its output
\* is the empty string: a non-empty output is returned with a nil error only.
C3_NoPartialOutput ==
    \A p \in Procs :
        Done(p, "run") => (result[p].err = Nil \/ result[p].out = Empty)

\* the read of the log stream failed after some bytes were read
C3_Witness ==
    \E p \in Procs :
        /\ Done(p, "run")
        /\ obs[p].failed = "read"
        /\ obs[p].got # Empty
        /\ result[p].err = ErrRead

\* the containers the daemon held when the call of p listed them and whose
\* name contains the analysisID of the API instance of p
Matching(p) == {id \in obs[p].atlist : Contains(containers[id].name, <<api[p]>>)}

\* C4: every container an API instance has created is named
\* <analysisID>-<new UUID> with the analysisID of that instance;
\* DeleteContainersFromAPI sends ContainerRemove only for containers whose
\* name contains the analysisID of its instance, and never for a container
\* that an instance with another analysisID created.
C4_CleanupScopedToRun ==
    /\ \A i \in 1..created :
        LET c == containers[ContainerID(i)] IN
        /\ c.owner \in AnalysisIDs
        /\ c.name = <<c.owner, "-", NewUUID(i)>>
        /\ NewUUID(i) \notin AnalysisIDs
        /\ \A j \in 1..created : j # i => NewUUID(j) # NewUUID(i)
    /\ \A r \in removals :
        r.from = "delete"
            => /\ Contains(containers[r.id].name, <<api[r.by]>>)
               /\ containers[r.id].owner = api[r.by]

\* two API instances with different analysisIDs each created a container in
\* the same daemon; the cleanup of one listed both present and removed its
\* own, and the container of the other is still there
C4_Witness ==
    \E p \in Procs, id, other \in CIDs :
        /\ Done(p, "delete")
        /\ {id, other} \subseteq obs[p].atlist
        /\ containers[id].owner = api[p]
        /\ containers[id].state = "removed"
        /\ Removal(p, "delete", id) \in removals
        /\ containers[other].owner # api[p]
        /\ Exists(containers[other])

\* C5: DeleteContainersFromAPI sends a ContainerRemove for every container,
\* running or not, that the daemon held at the list request and whose name
\* contains the analysisID: one request each, also after a ContainerRemove
\* that failed.
C5_CleanupVisitsAll ==
    \A p \in Procs :
        (Done(p, "delete") /\ obs[p].listed = "ok")
            => /\ \A id \in Matching(p) : Removal(p, "delete", id) \in removals
               /\ calls[p].remove = Cardinality(Matching(p))
               /\ obs[p].unremoved \subseteq Matching(p)

\* the cleanup listed two containers, one of them not running; removing the
\* first one failed and the request for the second one was sent all the same
C5_Witness ==
    \E p \in Procs, first, second \in CIDs :
        /\ Done(p, "delete")
        /\ Matching(p) = {first, second}
        /\ LatestFirst(Matching(p), created) = <<first, second>>
        /\ first \in obs[p].unremoved
        /\ Removal(p, "delete", second) \in removals
        /\ containers[first].state # "running"
        /\ calls[p].remove = 2

\* C6: with config.DisableDocker set, PullImage returns nil for every
\* reference and sends no request to the daemon (no ImageList, no ImagePull)
\* and does not lock the mutex.
C6_DisabledDockerNoEngineCall ==
    config.DisableDocker
        => /\ \A p \in Procs : Done(p, "pull")
                => (result[p].err = Nil /\ calls[p] = NoCalls)
           /\ \A p \in Procs : op[p] = "pull" => pc[p] = "done"
           /\ \A a \in AnalysisIDs : mutex[a] = "free"
           /\ images = {}

\* with DisableDocker set, PullImage has returned for a reference in the
\* default registry and for one in another registry
C6_Witness ==
    /\ config.DisableDocker
    /\ \E p, q \in Procs :
        /\ Done(p, "pull") /\ ref[p] = RefDefault
        /\ Done(q, "pull") /\ ref[q] = RefNested

\* the decimal text of the exit statuses of the model
StatusText(code) ==
    CASE code = -1 -> <<"-", "1">>
      [] code = 0 -> <<"0">>
      [] code = 137 -> <<"1", "3", "7">>

\* C7: a PullImage call with docker enabled and an ImageList that answered:
\* with one match or more it sends no ImagePull and returns nil; with none it
\* sends exactly one ImagePull, for the very reference it was called with;
\* the ImageList filter is that reference without the default registry in
\* front.
C7_PullOnlyIfAbsent ==
    \A p \in Procs :
        (Done(p, "pull") /\ ~config.DisableDocker /\ obs[p].matches >= 0)
            => /\ obs[p].matches >= 1 => (calls[p].pull = 0 /\ result[p].err = Nil)
               /\ obs[p].matches = 0 => (calls[p].pull = 1 /\ obs[p].pulled = <<ref[p]>>)
               /\ calls[p].ilist = 1
               /\ obs[p].filter = TrimPrefix(ref[p], DefaultRegistry \o <<"/">>)

\* C8: when the wait result of the started container carries an error,
\* CreateLanguageAnalysisContainer returns an error whose text contains the
\* container ID and the exit status in decimal, and has sent no
\* ContainerLogs.
C8_WaitErrorText ==
    \A p \in Procs :
        (Done(p, "run") /\ obs[p].wait = "error")
            => /\ result[p].err # Nil
               /\ result[p].out = Empty
               /\ cid[p] \in CIDs
               /\ Contains(result[p].err, <<cid[p]>>)
               /\ Contains(result[p].err, StatusText(obs[p].status))
               /\ calls[p].logs = 0

\* a wait result with an error and the exit status 137, and one with -1
C8_Witness ==
    \E p, q \in Procs :
        /\ Done(p, "run") /\ obs[p].wait = "error" /\ obs[p].status = 137
        /\ Done(q, "run") /\ obs[q].wait = "error" /\ obs[q].status = -1
        /\ cid[p] # cid[q]

\* two invocations that were given the same data and the same answers of the
\* daemon up to the ContainerRemove request
SameButRemove(p, q) ==
    /\ Done(p, "run") /\ Done(q, "run")
    /\ calls[p].remove = 1 /\ calls[q].remove = 1
    /\ data[p] = data[q]
    /\ obs[p].stream = obs[q].stream
    /\ obs[p].got = obs[q].got

\* C9: the outcome of ContainerRemove does not affect the result: two
\* invocations that differ only in whether ContainerRemove succeeded return
\* the same output and the same error, the log that was read and nil.
C9_RemoveOutcomeIrrelevant ==
    \A p, q \in Procs :
        SameButRemove(p, q)
            => /\ result[p] = result[q]
               /\ result[p] = [out |-> obs[p].stream, err |-> Nil]

\* two such invocations, with a non-empty log: the ContainerRemove of one
\* succeeded and that of the other failed
C9_Witness ==
    \E p, q \in Procs :
        /\ SameButRemove(p, q)
        /\ obs[p].stream # Empty
        /\ obs[p].remove = "ok"
        /\ obs[q].remove = "fail"

\* C10: a failure of create, start, wait or the log read ends the
\* invocation: once the daemon has reported it, in whichever way, the
\* invocation has returned an error (or is about to take its next step to do
\* so) and sends no further request; an invocation sends each of create,
\* start, wait and logs at most once.
C10_FailureIsTerminal ==
    \A p \in Procs :
        op[p] = "run"
            => /\ obs[p].failed # "none"
                    => \/ pc[p] = "done" /\ result[p].err # Nil
                       \/ ENABLED RunStep(p)
               /\ calls[p].create <= 1 /\ calls[p].start <= 1
               /\ calls[p].wait <= 1 /\ calls[p].logs <= 1

\* the goroutines that are inside the ImageList query of API instance a
InImageList(a) == {p \in Procs : api[p] = a /\ pc[p] = "imagelist"}

\* the mutex of every API instance is held by the one goroutine that is
\* inside its ImageList query, and by nobody when there is none
MutexHeldInCheckOnly ==
    \A a \in AnalysisIDs :
        /\ Cardinality(InImageList(a)) <= 1
        /\ mutex[a] = "free" <=> InImageList(a) = {}
        /\ mutex[a] # "free" => InImageList(a) = {mutex[a]}

\* C11: the check of the image is mutually exclusive and does not leak the
\* mutex: at most one caller of an API instance is inside the ImageList query,
\* the mutex is free again on every way out of the check (a match, no match,
\* an error of the daemon), and a caller that waits for the mutex gets to its
\* check, given that every ImageList request is answered.
C11_LockExclusiveAndReleased ==
    /\ []MutexHeldInCheckOnly
    /\ \A p \in Procs : (pc[p] = "lock") ~> (pc[p] = "imagelist")
    /\ \A p \in Procs : (pc[p] = "imagelist") ~> (mutex[api[p]] # p)

\* a caller waits for the mutex that another caller of the same API instance
\* holds during the check of its second call
C11_Witness ==
    \E p, q \in Procs :
        /\ p # q /\ api[p] = api[q]
        /\ pc[p] = "lock"
        /\ pc[q] = "imagelist" /\ mutex[api[q]] = q
        /\ ncalls[q] = 2

\* the error PullImage returns for the way its own pull ended
OwnPullOutcome(p) ==
    IF obs[p].failed = "pull" THEN ErrImagePull
    ELSE IF obs[p].pullread = "fail" THEN ErrRead
    ELSE Nil

\* C12: the check and the pull are not atomic as a pair: two concurrent
\* PullImage calls for the same absent reference can both find no image and
\* both send ImagePull for it (the state of C12_Witness is reached); a pull
\* is sent outside the mutex, by every call whose check found nothing,
\* whatever the other calls do, and each call returns what its own pull
\* ended with.
C12_PullsNotDeduplicated ==
    \A p \in Procs :
        op[p] = "pull"
            => /\ pc[p] \in {"pull", "pullread"} => mutex[api[p]] # p
               /\ (obs[p].matches = 0 /\ pc[p] \in {"pullread", "done"})
                    => (calls[p].pull = 1 /\ obs[p].pulled = <<ref[p]>>)
               /\ (pc[p] = "done" /\ calls[p].pull = 1)
                    => (obs[p].matches = 0 /\ result[p].err = OwnPullOutcome(p))

\* two calls of one API instance for the same reference have returned: both
\* checks found no image, so each check came before the other call's pull was
\* read to its end, both sent ImagePull and both returned their own success
C12_Witness ==
    \E p, q \in Procs :
        /\ p # q /\ api[p] = api[q] /\ ref[p] = ref[q]
        /\ op[p] = "pull" /\ op[q] = "pull"
        /\ obs[p].matches = 0 /\ obs[q].matches = 0
        /\ obs[p].pulled = <<ref[p]>> /\ obs[q].pulled = <<ref[q]>>
        /\ pc[p] = "done" /\ obs[p].pullread = "ok" /\ result[p].err = Nil
        /\ pc[q] = "done" /\ obs[q].pullread = "ok" /\ result[q].err = Nil
        /\ ncalls[p] = 1 /\ ncalls[q] = 1

\* the steps of CreateLanguageAnalysisContainer that follow the receive from
\* the status channel
AfterWaitStep(p) ==
    \/ readContainer_ContainerLogs(p)
    \/ readContainer_readOutputAsString(p)
    \/ removeContainer(p)

\* a step inside the call that p is making, of whichever method
CallStep(p) ==
    \/ RunStep(p)
    \/ checkIfImageNotExists_Lock(p)
    \/ checkIfImageNotExists_ImageList(p)
    \/ downloadImage(p)
    \/ readPullReader(p)
    \/ DeleteContainersFromAPI_ContainerRemove(p)

\* p is at its receive from the status channel of ContainerWait
AtWait(p) == op[p] = "run" /\ pc[p] = "waiting"

WaitBlocksOnlyItsCaller ==
    \A p \in Procs :
        /\ AtWait(p)
            => /\ calls[p].wait = 1 /\ calls[p].logs = 0 /\ calls[p].remove = 0
               /\ \A r \in removals : ~(r.by = p /\ r.call = ncalls[p])
               /\ \A a \in AnalysisIDs : mutex[a] # p
               /\ ~ENABLED AfterWaitStep(p)
               /\ obs[p].wait = "errchan" => ~ENABLED RunStep(p)
               /\ \A q \in Procs \ {p} :
                      pc[q] \notin {"idle", "done", "waiting"} => ENABLED CallStep(q)
        /\ (op[p] = "run" /\ pc[p] \in {"logs", "read", "remove"})
            => (obs[p].wait = "clean" /\ ENABLED RunStep(p))
        /\ (op[p] = "run" /\ pc[p] = "done" /\ calls[p].wait = 1)
            => obs[p].wait \in {"clean", "error"}

\* C13: the wait has no bound: an invocation that has sent ContainerWait
\* leaves its receive only when the daemon delivers a wait status, and then
\* goes on, step by step, to its return; until then, and for ever when the
\* daemon delivers none, it stays at the receive, where it has sent neither
\* logs nor remove and holds no mutex, and every other call in progress can
\* take its next step.
C13_WaitUnbounded ==
    /\ []WaitBlocksOnlyItsCaller
    /\ [][\A p \in Procs :
            AtWait(p)
                => \/ AtWait(p)' /\ calls'[p] = calls[p] /\ result'[p] = result[p]
                   \/ obs[p].wait = "none" /\ obs'[p].wait \in {"clean", "error"}]_vars

\* one invocation is at its receive, where no wait status will arrive, and
\* an invocation of the other goroutine, whose container was created later,
\* has gone through wait, logs and remove and returned
C13_Witness ==
    \E p, q \in Procs :
        /\ p # q
        /\ AtWait(p) /\ obs[p].wait = "errchan" /\ cid[p] = ContainerID(1)
        /\ Done(q, "run") /\ cid[q] = ContainerID(2)
        /\ calls[q].wait = 1 /\ calls[q].remove = 1 /\ result[q].err = Nil

\* what the rewriting makes of one character of a drive-letter path
RewrittenRune(c) ==
    IF c = ":" THEN Empty
    ELSE IF c \in {"\\", "/"} THEN <<"/", "/">>
    ELSE <<c>>

RECURSIVE RewrittenFrom(_, _)
RewrittenFrom(path, i) ==
    IF i > Len(path) THEN Empty
    ELSE RewrittenRune(path[i]) \o RewrittenFrom(path, i + 1)

\* a drive-letter path, character by character: the prepended slash,
\* doubled, the drive letter in lower case, and the rest without its colons
\* and with two forward slashes for every slash of either kind
Rewritten(path) ==
    <<"/", "/">> \o RewrittenRune(LowerRune(path[1])) \o RewrittenFrom(path, 2)

\* the root the mount source is built from
MountRoot ==
    IF config.ContainerBindProjectPath = Empty
    THEN config.ProjectPath
    ELSE config.ContainerBindProjectPath

\* C14: the mount source of a created container is the bind root of the
\* configuration if it is non-empty, else the project path, joined with
\* .horusec and the run identifier; if the second character of that path is
\* a colon the source is its rewriting (drive letter in lower case, no colon,
\* a leading slash, no backslash, every forward slash doubled), and else it
\* is that path unchanged.
C14_MountSource ==
    \A id \in CIDs :
        Exists(containers[id])
            => LET joined == FilepathJoin(config.GOOS,
                                 <<MountRoot, HorusecFolder, <<containers[id].owner>>>>)
                   source == containers[id].host.Source
               IN /\ containers[id].host.Target = pathDestinyInContainer
                  /\ IF Len(joined) >= 2 /\ joined[2] = ":"
                     THEN /\ source = Rewritten(joined)
                          /\ ~Contains(source, <<":">>)
                          /\ ~Contains(source, <<"\\">>)
                          /\ SubSeq(source, 1, 3) = <<"/", "/", LowerRune(joined[1])>>
                          /\ \A i \in 1..Len(source) :
                                source[i] = "/"
                                    => \/ i > 1 /\ source[i - 1] = "/"
                                       \/ i < Len(source) /\ source[i + 1] = "/"
                     ELSE source = joined

\* on Windows, with no bind root, the container of a run of the project
\* C:\P mounts //c//P//.horusec//<run>
C14_Witness ==
    \E id \in CIDs :
        /\ Exists(containers[id])
        /\ config.ContainerBindProjectPath = Empty
        /\ config.ProjectPath = <<"C", ":", "\\", "P">>
        /\ config.GOOS = "windows"
        /\ containers[id].host.Source =
              <<"/", "/", "c", "/", "/", "P", "/", "/">> \o HorusecFolder
                  \o <<"/", "/", containers[id].owner>>

\* the command template with the run identifier at each place of the token
Instantiated(template, analysisID) ==
    [i \in DOMAIN template |->
        IF template[i] = "ANALYSISID" THEN analysisID ELSE template[i]]

\* the invocations whose container the daemon holds
Created == {p \in Procs : op[p] = "run" /\ cid[p] # NoContainer
                                        /\ Exists(containers[cid[p]])}

\* C15: the command of the container an invocation created is /bin/sh -c
\* with "cd /src && " followed by the command template of the invocation in
\* which the run identifier stands at every place of the token ANALYSISID;
\* no ANALYSISID remains in it, and a template without the token follows the
\* prefix unchanged.
C15_CommandHasRunIdentifier ==
    \A p \in Created :
        LET command == containers[cid[p]].config.Cmd
        IN /\ command = <<"/bin/sh", "-c",
                          <<"cd ", "/src", " && ">> \o Instantiated(data[p].cmd, api[p])>>
           /\ ~Contains(command[3], <<"ANALYSISID">>)
           /\ ~Contains(data[p].cmd, <<"ANALYSISID">>)
                => command[3] = <<"cd ", "/src", " && ">> \o data[p].cmd

\* a container created for a template with two tokens: both are the run
\* identifier in its command
C15_Witness ==
    \E p \in Created :
        /\ data[p].cmd = <<"cat", " ", "ANALYSISID", "/", "ANALYSISID">>
        /\ containers[cid[p]].config.Cmd[3] =
              <<"cd ", "/src", " && ", "cat", " ", api[p], "/", api[p]>>

\* what the registry reads from a token: the text decoded with
\* base64.URLEncoding and parsed as the JSON of an AuthConfig, where a
\* member that is absent leaves its field empty
Member(object, key) ==
    IF \E i \in DOMAIN object : object[i].key = key
    THEN object[CHOOSE i \in DOMAIN object : object[i].key = key].value
    ELSE Empty

Decoded(token) ==
    [Username |-> Member(token.of, "username"),
     Password |-> Member(token.of, "password"),
     ServerAddress |-> Member(token.of, "serveraddress")]

\* an ImagePull request of p and its options
Pulling(p) == op[p] = "pull" /\ calls[p].pull = 1

HasToken(p) == obs[p].options.RegistryAuth # Empty

\* the token is there for both credentials and for nothing less
TokenIffBothCredentials ==
    \A p \in Procs :
        Pulling(p)
            => (HasToken(p) <=> (config.env.Username # Empty /\ config.env.Password # Empty))

\* C16 as stated: the token is there if and only if the username and the
\* password are both non-empty, and it decodes to exactly the username, the
\* password and the server address of the settings.
C16_TokenDecodesExactly ==
    /\ TokenIffBothCredentials
    /\ \A p \in Procs :
          (Pulling(p) /\ HasToken(p))
              => (/\ obs[p].options.RegistryAuth.encoding = "base64url"
                  /\ Decoded(obs[p].options.RegistryAuth) = config.env)

\* C16: the token is there if and only if the username and the password
\* are both non-empty (a server address alone, or one credential alone, gives
\* none), and it decodes to the username, the password and the server
\* address of the settings with U+FFFD for every byte that is not valid
\* UTF-8: to exactly the settings when they are valid UTF-8.
C16_TokenDecodesToValidUTF8 ==
    /\ TokenIffBothCredentials
    /\ \A p \in Procs :
          (Pulling(p) /\ HasToken(p))
              => LET decoded == Decoded(obs[p].options.RegistryAuth)
                     Same(field) == Len(decoded[field]) = Len(config.env[field])
                                 /\ \A i \in DOMAIN decoded[field] :
                                       decoded[field][i] =
                                           IF config.env[field][i] = InvalidByte
                                           THEN ReplacementRune
                                           ELSE config.env[field][i]
                 IN /\ obs[p].options.RegistryAuth.encoding = "base64url"
                    /\ Same("Username") /\ Same("Password") /\ Same("ServerAddress")
                    /\ (\A field \in {"Username", "Password", "ServerAddress"} :
                            ~Contains(config.env[field], <<InvalidByte>>))
                          => decoded = config.env

\* a pull with the token of a username and a password, without a server
\* address, which decodes to them
C16_Witness ==
    \E p \in Procs :
        /\ Pulling(p) /\ HasToken(p)
        /\ config.env = [Username |-> <<"u">>, Password |-> <<"p">>, ServerAddress |-> Empty]
        /\ Decoded(obs[p].options.RegistryAuth) = config.env

\* the requests of an invocation come in the order create, start, wait,
\* logs, remove, each at most once and each after the success of the one
\* before it, and two invocations never hold the same container
RequestsInOrder ==
    \A p \in Procs :
        op[p] = "run"
            => /\ \A kind \in {"create", "start", "wait", "logs", "remove"} :
                      calls[p][kind] <= 1
               /\ pc[p] \in {"start", "wait", "waiting", "logs", "read", "remove"}
                    => calls[p].create = 1
               /\ cid[p] # NoContainer <=> (calls[p].create = 1 /\ obs[p].failed # "create")
               /\ calls[p].start = 1 => cid[p] # NoContainer
               /\ calls[p].wait = 1
                    => (calls[p].start = 1 /\ obs[p].failed \notin {"create", "start"})
               /\ calls[p].logs = 1 => (calls[p].wait = 1 /\ obs[p].wait = "clean")
               /\ calls[p].remove = 1
                    => /\ calls[p].logs = 1 /\ obs[p].failed = "none"
                       /\ Removal(p, "run", cid[p]) \in removals
               /\ \A r \in removals :
                      (r.by = p /\ r.call = ncalls[p]) => (r.id = cid[p] /\ calls[p].remove = 1)
               /\ \A q \in Procs \ {p} : cid[p] # NoContainer => cid[q] # cid[p]

\* the containers that come into being in a step
NewContainers == {id \in CIDs : containers[id].state = "none" /\ containers'[id].state # "none"}

\* C17: an invocation that passed the validation sends one ContainerCreate,
\* and the one container the daemon creates for it is the container of all
\* its later requests, which follow the order create, start, wait, logs,
\* remove: start after a create that succeeded, wait after a start that
\* succeeded, logs after a clean wait result, remove after the logs; the
\* identifier of a container is new when the invocation gets it and is never
\* the identifier of the container of another invocation.
C17_OneContainerInOrder ==
    /\ []RequestsInOrder
    /\ [][/\ \A id \in NewContainers :
                \E p \in Procs :
                    /\ op[p] = "run" /\ cid[p] = NoContainer /\ cid'[p] = id
                    /\ calls[p].create = 0 /\ calls'[p].create = 1
                    /\ NewContainers = {id}
                    /\ \A q \in Procs : cid[q] # id
                    /\ \A r \in removals : r.id # id
          /\ \A p \in Procs :
                (cid'[p] # cid[p] /\ cid'[p] # NoContainer) => cid'[p] \in NewContainers
          /\ \A id \in CIDs :
                containers[id].state # "none" => containers'[id].state # "none"]_vars

\* an invocation has gone through its five requests and returned without an
\* error, and another invocation is reading the logs of its own container
C17_Witness ==
    \E p, q \in Procs :
        /\ p # q
        /\ Done(p, "run") /\ result[p].err = Nil
        /\ \A kind \in {"create", "start", "wait", "logs", "remove"} : calls[p][kind] = 1
        /\ op[q] = "run" /\ pc[q] = "read"
        /\ cid[q] # NoContainer /\ cid[q] # cid[p]

\* the invocation of p returned because its ContainerStart failed
StartFailed(p) == Done(p, "run") /\ obs[p].failed = "start"

\* what such an invocation returns, and the requests it has sent
StartFailureReturn(p) ==
    /\ result[p] = [out |-> Empty, err |-> ErrContainerStart]
    /\ calls[p].create = 1 /\ calls[p].start = 1
    /\ calls[p].wait = 0 /\ calls[p].logs = 0 /\ calls[p].remove = 0
    /\ \A r \in removals : ~(r.by = p /\ r.call = ncalls[p])

\* C18 as stated: an invocation whose ContainerStart fails after the create
\* succeeded returns the start error with an empty output, having sent no
\* wait, logs or remove, and its container exists at that return.
C18_ContainerExistsAtReturn ==
    [][\A p \in Procs :
          (~StartFailed(p) /\ StartFailed(p)')
              => (StartFailureReturn(p)' /\ Exists(containers'[cid'[p]]))]_vars

\* C18: an invocation whose ContainerStart fails after the create succeeded
\* returns the start error with an empty output, having sent no wait, logs
\* or remove: it does not remove its container, which exists at the return
\* and after it unless a DeleteContainersFromAPI call has sent a
\* ContainerRemove for it.
C18_StartFailureNoCleanup ==
    \A p \in Procs :
        StartFailed(p)
            => /\ StartFailureReturn(p)
               /\ cid[p] # NoContainer
               /\ \/ Exists(containers[cid[p]])
                  \/ \E r \in removals : r.id = cid[p] /\ r.from = "delete" /\ r.by # p

\* an invocation has returned the start error and its container is there,
\* created and not started
C18_Witness ==
    \E p \in Procs :
        /\ StartFailed(p)
        /\ result[p].err = ErrContainerStart
        /\ containers[cid[p]].state = "created"

\* C19: PullImage returns nil after a pull only when the stream of the
\* pull was read to its end: a failure of that read is the error it returns,
\* although ImagePull had succeeded; a failure of ImagePull is the error it
\* returns, and no stream is read; a failure of ImageList is the error it
\* returns, and no ImagePull is sent.
C19_PullErrors ==
    \A p \in Procs :
        op[p] = "pull"
            => /\ obs[p].failed = "ilist"
                    => /\ pc[p] = "done" /\ result[p].err = ErrImageList
                       /\ calls[p].pull = 0 /\ obs[p].pulled = Empty
                       /\ obs[p].pullread = "none"
               /\ obs[p].failed = "pull"
                    => /\ pc[p] = "done" /\ result[p].err = ErrImagePull
                       /\ calls[p].pull = 1 /\ obs[p].pullread = "none"
               /\ obs[p].pullread = "fail"
                    => /\ pc[p] = "done" /\ result[p].err = ErrRead
                       /\ calls[p].pull = 1 /\ obs[p].failed = "pullread"
               /\ (pc[p] = "done" /\ calls[p].pull = 1 /\ result[p].err = Nil)
                    => obs[p].pullread = "ok"
               /\ calls[p].pull = 1 => (calls[p].ilist = 1 /\ obs[p].matches = 0)
               /\ pc[p] = "pullread" => obs[p].pullread = "none"

\* a call whose ImagePull succeeded and whose stream failed to read has
\* returned the error of the read, and the daemon has no image for it
C19_Witness ==
    \E p \in Procs :
        /\ Done(p, "pull") /\ calls[p].pull = 1
        /\ obs[p].pullread = "fail" /\ obs[p].failed = "pullread"
        /\ result[p].err = ErrRead
        /\ FamiliarName(ref[p]) \notin images

\* the call of DeleteContainersFromAPI by p has returned, its ContainerList
\* and each of its ContainerRemove requests having succeeded
CleanedUp(p) ==
    Done(p, "delete") /\ obs[p].listed = "ok" /\ obs[p].unremoved = {}

\* the containers of the run of p that the daemon holds
Leftovers(p) == {id \in CIDs : containers[id].owner = api[p] /\ Exists(containers[id])}

\* no other goroutine has made an invocation for the run of p: its
\* invocations are the earlier calls of p, which have returned
OnlyInvoker(p) == \A q \in Procs \ {p} : api[q] # api[p] \/ ncalls[q] = 0

\* C20: a DeleteContainersFromAPI call whose ContainerList and removals all
\* succeed leaves none of the containers of its run that the daemon held when
\* it listed them, whatever state their invocations left them in, and so
\* none at all when the invocations of the run had returned before it; a
\* call whose ContainerList fails sends no ContainerRemove.
C20_CleanupReclaimsLeftovers ==
    \A p \in Procs :
        op[p] = "delete"
            => /\ CleanedUp(p) => Leftovers(p) \cap obs[p].atlist = {}
               /\ (CleanedUp(p) /\ OnlyInvoker(p)) => Leftovers(p) = {}
               /\ obs[p].listed = "fail"
                    => /\ pc[p] = "done" /\ calls[p].remove = 0
                       /\ \A r \in removals : ~(r.by = p /\ r.call = ncalls[p])

\* the cleanup has returned after it removed two containers of its run: one
\* of an invocation whose ContainerStart had failed, which was never started,
\* and one that its invocation had left behind
C20_Witness ==
    \E p, q \in Procs :
        /\ p # q /\ api[p] = api[q]
        /\ CleanedUp(p) /\ calls[p].remove = 2 /\ Leftovers(p) = {}
        /\ Done(q, "run") /\ obs[q].failed = "start"
        /\ cid[q] \in obs[p].atlist
        /\ Removal(p, "delete", cid[q]) \in removals
        /\ \E id \in obs[p].atlist \ {cid[q]} :
              /\ containers[id].owner = api[p]
              /\ Removal(p, "delete", id) \in removals

\* the invocation of q is between its ContainerCreate and its own
\* ContainerRemove
HoldsContainer(q) ==
    op[q] = "run" /\ pc[q] \in {"start", "wait", "waiting", "logs", "read", "remove"}

\* the ContainerRemove requests of the call of DeleteContainersFromAPI that
\* p is making, or made last
CleanupRemovals(p) ==
    {r \in removals : r.by = p /\ r.call = ncalls[p] /\ r.from = "delete"}

\* C21: DeleteContainersFromAPI takes no lock and waits for no invocation:
\* it can start whatever the invocations of its run are doing, and its next
\* ContainerRemove can remove a container that an invocation holds between
\* its create and its own remove, so that one container can be the target of
\* two ContainerRemove requests (C21_Witness): an invocation loses the
\* container it holds to a cleanup only, and then its ContainerLogs fails
\* and its own ContainerRemove is still sent, and fails; the cleanup sends ContainerRemove only for the
\* containers of its run that it listed, so a container created after the
\* list is not removed by it.
C21_CleanupUnsynchronized ==
    /\ \A p \in Procs : CanCall(p) => ENABLED DeleteContainersFromAPI(p)
    /\ \A p \in Procs :
          op[p] = "delete"
              => /\ calls[p].lock = 0
                 /\ \A a \in AnalysisIDs : mutex[a] # p
                 /\ pc[p] = "removing"
                      => /\ todo[p] # Empty
                         /\ \A i \in DOMAIN todo[p] : todo[p][i] \in obs[p].atlist
                         /\ Exists(containers[Head(todo[p])])
                              => ENABLED (/\ DeleteContainersFromAPI_ContainerRemove(p)
                                          /\ ~Exists(containers'[Head(todo[p])]))
                 /\ \A r \in CleanupRemovals(p) :
                        r.id \in obs[p].atlist /\ containers[r.id].owner = api[p]
                 /\ \A id \in CIDs \ obs[p].atlist :
                        \A r \in CleanupRemovals(p) : r.id # id
    /\ \A q \in Procs :
          (HoldsContainer(q) /\ ~Exists(containers[cid[q]]))
              => /\ \E r \in removals : r.from = "delete" /\ r.by # q /\ r.id = cid[q]
                 /\ pc[q] = "logs"
                      => ~ENABLED (readContainer_ContainerLogs(q) /\ pc'[q] = "read")
                 /\ pc[q] = "remove"
                      => ENABLED (removeContainer(q) /\ obs'[q].remove = "fail")

\* a container of the run has been the target of two ContainerRemove
\* requests, the one of the cleanup, which removed it, and the one of its
\* invocation; and the container of the next invocation of the run, which
\* was created after the list of the cleanup and is not in it, is in the
\* daemon
C21_Witness ==
    \E p, q \in Procs :
        /\ p # q /\ api[p] = api[q]
        /\ Done(p, "delete") /\ obs[p].listed = "ok"
        /\ \E r \in CleanupRemovals(p), t \in removals :
              /\ t.by = q /\ t.from = "run" /\ t.id = r.id /\ t.call = 1
              /\ r.id \notin obs[p].unremoved
        /\ HoldsContainer(q) /\ ncalls[q] = 2
        /\ cid[q] \notin obs[p].atlist
        /\ Exists(containers[cid[q]]) /\ containers[cid[q]].owner = api[p]

=============================================================================
